---------------------------- MODULE Spec2Model ----------------------------
(***************************************************************************)
(* Model of go-minimal-proxy.                                              *)
(*                                                                         *)
(* The repository holds two programs:                                      *)
(*   src/main.go      the tunnel-only proxy (HTTP CONNECT), called the     *)
(*                    "tunnel" variant here;                               *)
(*   src/src/main.go  the HTTP forward + SOCKS proxy, the "socks" variant. *)
(*                                                                         *)
(* Strings are sequences of one-character strings, so that prefix tests,   *)
(* trimming, port splitting and concatenation are computed, not assumed.   *)
(***************************************************************************)
EXTENDS Naturals, Integers, Sequences, FiniteSets

(***************************************************************************)
(* Bounds of the model.                                                    *)
(***************************************************************************)
\* bytes each peer may send on one connection
MaxPayload == 2
\* Read/Write calls made on one metered wrapper
MaxCalls == 3
\* length of the buffer handed to one metered Read/Write call
MaxBuf == 2
\* length of the candidate host strings given to the policy checks
MaxHostLen == 3
\* connections the accept loop takes in one run of SpecLoop
MaxConns == 2

(***************************************************************************)
(* Strings.                                                                *)
(***************************************************************************)
Colon == <<":">>
\* the literal ":443" of src/main.go:118
DefaultPort == <<":", "4", "4", "3">>

Teapot == "HTTP/1.1 418 I'm a teapot\r\n\r\n"
Established == "HTTP/1.1 200 Connection Established\r\nProxy-agent: go-tunnel-proxy\r\nConnection: close\r\n\r\n"

\* strings.HasPrefix(s, prefix): len(s) >= len(prefix) && s[:len(prefix)] == prefix
HasPrefix(s, prefix) ==
    /\ Len(s) >= Len(prefix)
    /\ SubSeq(s, 1, Len(prefix)) = prefix

\* strings.Contains(s, substr)
Contains(s, substr) ==
    \E i \in 0..(Len(s) - Len(substr)) : SubSeq(s, i + 1, i + Len(substr)) = substr

IsSpace(c) == c = " "

\* strings.TrimSpace: drop the leading and the trailing white space
RECURSIVE TrimLeft(_)
TrimLeft(s) ==
    IF s # <<>> /\ IsSpace(Head(s)) THEN TrimLeft(Tail(s)) ELSE s

RECURSIVE TrimRight(_)
TrimRight(s) ==
    IF s # <<>> /\ IsSpace(s[Len(s)]) THEN TrimRight(SubSeq(s, 1, Len(s) - 1)) ELSE s

TrimSpace(s) == TrimRight(TrimLeft(s))

\* index of the last ":" of s, 0 when there is none
LastColon(s) ==
    IF \E i \in 1..Len(s) : s[i] = ":"
    THEN CHOOSE i \in 1..Len(s) : s[i] = ":" /\ \A j \in (i + 1)..Len(s) : s[j] # ":"
    ELSE 0

\* net.SplitHostPort for addresses without brackets: the port follows the
\* last colon; no colon is "missing port", a colon in the host part is
\* "too many colons".
SplitHostPort(addr) ==
    LET i == LastColon(addr) IN
    IF i = 0 THEN [host |-> <<>>, port |-> <<>>, err |-> TRUE]
    ELSE IF Contains(SubSeq(addr, 1, i - 1), Colon)
         THEN [host |-> <<>>, port |-> <<>>, err |-> TRUE]
         ELSE [host |-> SubSeq(addr, 1, i - 1),
               port |-> SubSeq(addr, i + 1, Len(addr)),
               err  |-> FALSE]

(***************************************************************************)
(* Host policy.                                                            *)
(***************************************************************************)
\* src/main.go loadBlacklist: every scanned line, trimmed, becomes a key
RECURSIVE loadBlacklistTunnel(_)
loadBlacklistTunnel(lines) ==
    IF lines = <<>> THEN {}
    ELSE {TrimSpace(Head(lines))} \cup loadBlacklistTunnel(Tail(lines))

\* src/src/main.go loadBlacklist: only the non-empty trimmed lines are kept
RECURSIVE loadBlacklistSocks(_)
loadBlacklistSocks(lines) ==
    IF lines = <<>> THEN {}
    ELSE LET line == TrimSpace(Head(lines)) IN
         (IF line # <<>> THEN {line} ELSE {}) \cup loadBlacklistSocks(Tail(lines))

\* a wrong prefix test: the arguments of HasPrefix exchanged
isBlockedSwapped(host, bl) ==
    \E blockedURL \in bl : HasPrefix(blockedURL, host)

\* src/main.go isBlocked: true as soon as one key is a prefix of host
isBlocked(host, bl) ==
    \E blockedURL \in bl : HasPrefix(host, blockedURL)

\* src/src/main.go isBlacklisted: map lookup of the whole address
isBlacklisted(address, bl) == address \in bl

(***************************************************************************)
(* State.                                                                  *)
(***************************************************************************)
VARIABLES
    variant,       \* which program runs: "tunnel" (src/main.go) or "socks" (src/src/main.go)
    blacklist,     \* the package variable blacklist, as loaded at startup
    pc,            \* position of the connection's handler
    remoteAddr,    \* client.RemoteAddr().String() of the accepted connection
    targetAddr,    \* handleSOCKS parameter targetAddr
    req,           \* result of http.ReadRequest
    held,          \* client bytes read ahead into clientReader's buffer
    hostPort,      \* tunnel: local hostPort; socks: local host
    blocked,       \* result of the policy check: "unknown", "yes", "no"
    dialed,        \* addresses passed to net.Dial / dialer.Dial, in order
    dialOK,        \* the dial returned a connection
    deferred,      \* deferred Close calls, in the order they were registered
    clientClosed,  \* Close was called on the accepted connection
    serverClosed,  \* Close was called on the dialed connection
    clientW,       \* status responses the handler wrote with client.Write / conn.Write
    clientSent,    \* number of payload bytes the client has sent
    clientEnded,   \* the client's sending side has ended (FIN or reset)
    c2p,           \* client bytes waiting in the accepted socket
    targetSent,    \* number of payload bytes the target has sent
    targetEnded,   \* the target's sending side has ended
    t2p,           \* target bytes waiting in the dialed socket
    toTarget,      \* bytes the relay wrote to the dialed connection
    toClient,      \* bytes the relay wrote to the accepted connection
    bg,            \* the goroutine of "go io.Copy": "none", "read", "write", "done"
    bgBuf,         \* bytes the background copy read and has not written yet
    bgRet,         \* why the background copy ended
    fgBuf,         \* bytes the foreground copy read and has not written yet
    fgRet,         \* why the foreground copy ended
    bytesRead,     \* tunnel: serverCounting.bytesRead; socks: cr.bytesRead
    bytesWritten,  \* tunnel: clientCounting.bytesWritten; socks: cw.bytesWritten
    logged,        \* the two totals of the transfer log line, <<>> before it
    mKind,         \* the metered wrapper under test: its type name
    mBytesRead,    \* its field bytesRead
    mBytesWritten, \* its field bytesWritten
    mCalls,        \* the Read/Write calls made on it: what the underlying call
                   \* returned and what the wrapper returned
    policyFile,    \* blacklist.txt as the sequence of its lines
    httpReq,       \* handleHTTP: the request r it was called with
    origin,        \* handleHTTP: the origin server r names, and its answer
    dispatched,    \* handleHTTP: number of client.Do calls made for r
    httpW,         \* handleHTTP: what was written to the ResponseWriter w
    httpLogged,    \* handleHTTP: the total of its transfer log line, <<>> before it
    conns,         \* accept loop: the handler of every connection of the process
    listening      \* accept loop: the loop of main is running

hvars == <<variant, blacklist, pc, remoteAddr, targetAddr, req, held, hostPort,
           blocked, dialed, dialOK, deferred, clientClosed, serverClosed, clientW,
           clientSent, clientEnded, c2p, targetSent, targetEnded, t2p, toTarget,
           toClient, bg, bgBuf, bgRet, fgBuf, fgRet, bytesRead, bytesWritten, logged>>

mvars == <<mKind, mBytesRead, mBytesWritten, mCalls>>

httpVars == <<httpReq, origin, dispatched, httpW, httpLogged>>

loopVars == <<conns, listening>>

vars == <<hvars, mvars, policyFile, httpVars, loopVars>>

\* what no step of a tunnel handler changes
static == <<variant, blacklist, mvars, policyFile, httpVars, loopVars>>

(***************************************************************************)
(* Inputs of the handlers.                                                 *)
(***************************************************************************)
\* blacklist.txt, as the sequence of its lines
PolicyFiles ==
    { << <<"a">>, <<"c", ":", "4", "4", "3">> >>,
      << <<" ", "b">>, <<>> >> }

\* req.URL.Host of the parsed request
Hosts == { <<"a">>, <<"a", ":", "8">>, <<"c">>, <<"c", ":", "8">> }

\* remote addresses of accepted TCP connections: always ip:port
RemoteAddrs == { <<"a", ":", "8">>, <<"c", ":", "8">> }

NoRequest == [ok |-> FALSE, method |-> "", host |-> <<>>]

\* what http.ReadRequest can return: an error, or a parsed request
Requests ==
    {NoRequest} \cup [ok : {TRUE}, method : {"CONNECT", "GET"}, host : Hosts]

\* no metered wrapper is under test
MeterIdle ==
    /\ mKind = "none"
    /\ mBytesRead = 0
    /\ mBytesWritten = 0
    /\ mCalls = <<>>

\* handleHTTP was not called
HttpIdle ==
    /\ httpReq = [host |-> <<>>, requestURI |-> <<>>]
    /\ origin = [up |-> FALSE, status |-> 0, header |-> "", body |-> <<>>]
    /\ dispatched = 0
    /\ httpW = [status |-> 0, header |-> "", body |-> <<>>, msg |-> ""]
    /\ httpLogged = <<>>

\* the accept loop is not followed: no connection besides the one of pc
LoopIdle ==
    /\ conns = <<>>
    /\ listening = TRUE

\* the per-connection state before the connection is accepted
ConnFresh ==
    /\ remoteAddr = <<>>
    /\ targetAddr = <<>>
    /\ req = NoRequest
    /\ held = <<>>
    /\ hostPort = <<>>
    /\ blocked = "unknown"
    /\ dialed = <<>>
    /\ dialOK = FALSE
    /\ deferred = <<>>
    /\ clientClosed = FALSE
    /\ serverClosed = FALSE
    /\ clientW = <<>>
    /\ clientSent = 0
    /\ clientEnded = FALSE
    /\ c2p = <<>>
    /\ targetSent = 0
    /\ targetEnded = FALSE
    /\ t2p = <<>>
    /\ toTarget = <<>>
    /\ toClient = <<>>
    /\ bg = "none"
    /\ bgBuf = <<>>
    /\ bgRet = "none"
    /\ fgBuf = <<>>
    /\ fgRet = "none"
    /\ bytesRead = 0
    /\ bytesWritten = 0
    /\ logged = <<>>

Init ==
    /\ variant \in {"tunnel", "socks"}
    /\ policyFile \in PolicyFiles
    /\ blacklist = IF variant = "tunnel" THEN loadBlacklistTunnel(policyFile)
                                         ELSE loadBlacklistSocks(policyFile)
    /\ pc = "accept"
    /\ MeterIdle
    /\ ConnFresh
    /\ HttpIdle
    /\ LoopIdle

peerVars == <<clientSent, clientEnded, c2p, targetSent, targetEnded, t2p>>
copyVars == <<toTarget, toClient, bg, bgBuf, bgRet, fgBuf, fgRet, bytesRead, bytesWritten>>
connVars == <<clientClosed, serverClosed, deferred>>
reqVars  == <<remoteAddr, targetAddr, req, held, hostPort, blocked>>

(***************************************************************************)
(* Metered transport.  Each wrapper method forwards the call and adds the  *)
(* n of the underlying call to its counter; res is what the underlying     *)
(* call returned, c the counter before the call.                           *)
(***************************************************************************)
IOResult(n, err) == [n |-> n, err |-> err]

\* src/main.go countingConn.Write
countingConnWrite(c, res) == [count |-> c + res.n, n |-> res.n, err |-> res.err]

\* src/main.go countingConn.Read
countingConnRead(c, res) == [count |-> c + res.n, n |-> res.n, err |-> res.err]

\* a writer that counts a call only when it reported no error
countingWriterWriteOnSuccess(c, res) ==
    [count |-> IF res.err = "nil" THEN c + res.n ELSE c, n |-> res.n, err |-> res.err]

\* src/src/main.go countingWriter.Write
countingWriterWrite(c, res) == [count |-> c + res.n, n |-> res.n, err |-> res.err]

\* src/src/main.go countingReader.Read
countingReaderRead(c, res) == [count |-> c + res.n, n |-> res.n, err |-> res.err]

(***************************************************************************)
(* The peers.  The client may send payload bytes from the moment it is     *)
(* connected, the target from the moment it was dialed; either may end its *)
(* stream at any time.  Byte i of a peer is the number i.                  *)
(***************************************************************************)
ClientSend ==
    /\ pc # "accept"
    /\ ~clientEnded /\ ~clientClosed
    /\ clientSent < MaxPayload
    /\ clientSent' = clientSent + 1
    /\ c2p' = Append(c2p, clientSent + 1)
    /\ UNCHANGED <<static, pc, reqVars, dialed, dialOK, connVars, clientW,
                   clientEnded, targetSent, targetEnded, t2p, copyVars, logged>>

ClientEnd ==
    /\ pc # "accept"
    /\ ~clientEnded /\ ~clientClosed
    /\ clientEnded' = TRUE
    /\ UNCHANGED <<static, pc, reqVars, dialed, dialOK, connVars, clientW,
                   clientSent, c2p, targetSent, targetEnded, t2p, copyVars, logged>>

TargetSend ==
    /\ dialOK
    /\ ~targetEnded /\ ~serverClosed
    /\ targetSent < MaxPayload
    /\ targetSent' = targetSent + 1
    /\ t2p' = Append(t2p, targetSent + 1)
    /\ UNCHANGED <<static, pc, reqVars, dialed, dialOK, connVars, clientW,
                   clientSent, clientEnded, c2p, targetEnded, copyVars, logged>>

TargetEnd ==
    /\ dialOK
    /\ ~targetEnded /\ ~serverClosed
    /\ targetEnded' = TRUE
    /\ UNCHANGED <<static, pc, reqVars, dialed, dialOK, connVars, clientW,
                   clientSent, clientEnded, c2p, targetSent, t2p, copyVars, logged>>

(***************************************************************************)
(* The tunnel variant: handleClientConnection of src/main.go.              *)
(***************************************************************************)
\* main: listener.Accept, go handleClientConnection(client); defer client.Close()
TunnelAccept ==
    /\ variant = "tunnel"
    /\ pc = "accept"
    /\ \E addr \in RemoteAddrs : remoteAddr' = addr
    /\ deferred' = Append(deferred, "client")
    /\ pc' = "readRequest"
    /\ UNCHANGED <<static, targetAddr, req, held, hostPort, blocked,
                   dialed, dialOK, clientClosed, serverClosed, clientW, peerVars,
                   copyVars, logged>>

\* clientReader := bufio.NewReader(client); http.ReadRequest(clientReader).
\* The buffered reader takes what the socket holds, the bytes after the
\* request included.
TunnelReadRequest ==
    /\ variant = "tunnel"
    /\ pc = "readRequest"
    /\ \E r \in Requests :
          /\ req' = r
          /\ pc' = IF r.ok THEN "method" ELSE "return"
    /\ held' = c2p
    /\ c2p' = <<>>
    /\ UNCHANGED <<static, remoteAddr, targetAddr, hostPort, blocked,
                   dialed, dialOK, connVars, clientW, clientSent, clientEnded,
                   targetSent, targetEnded, t2p, copyVars, logged>>

\* a method step that lets every method through
TunnelCheckMethodAny ==
    /\ variant = "tunnel"
    /\ pc = "method"
    /\ pc' = "policy"
    /\ UNCHANGED <<static, reqVars, dialed, dialOK, connVars, clientW,
                   peerVars, copyVars, logged>>

\* if req.Method != "CONNECT" { return }
TunnelCheckMethod ==
    /\ variant = "tunnel"
    /\ pc = "method"
    /\ pc' = IF req.method # "CONNECT" THEN "return" ELSE "policy"
    /\ UNCHANGED <<static, reqVars, dialed, dialOK, connVars, clientW,
                   peerVars, copyVars, logged>>

\* a policy step that answers 418 and then goes on to dial
TunnelCheckPolicyNoReturn ==
    /\ variant = "tunnel"
    /\ pc = "policy"
    /\ hostPort' = req.host
    /\ IF isBlocked(req.host, blacklist)
       THEN /\ blocked' = "yes"
            /\ clientW' = Append(clientW, Teapot)
       ELSE /\ blocked' = "no"
            /\ clientW' = clientW
    /\ pc' = "dial"
    /\ UNCHANGED <<static, remoteAddr, targetAddr, req, held, dialed,
                   dialOK, connVars, peerVars, copyVars, logged>>

\* hostPort := req.URL.Host; if isBlocked(hostPort) { client.Write(418); return }
TunnelCheckPolicy ==
    /\ variant = "tunnel"
    /\ pc = "policy"
    /\ hostPort' = req.host
    /\ IF isBlocked(req.host, blacklist)
       THEN /\ blocked' = "yes"
            /\ clientW' = Append(clientW, Teapot)
            /\ pc' = "return"
       ELSE /\ blocked' = "no"
            /\ clientW' = clientW
            /\ pc' = "dial"
    /\ UNCHANGED <<static, remoteAddr, targetAddr, req, held, dialed,
                   dialOK, connVars, peerVars, copyVars, logged>>

\* a port normalisation that appends the default port to every host
NormalizePortAlways(hp) == hp \o DefaultPort

\* if !strings.Contains(hostPort, ":") { hostPort = hostPort + ":443" }
NormalizePort(hp) ==
    IF ~Contains(hp, Colon) THEN hp \o DefaultPort ELSE hp

\* server, err := net.Dial("tcp", hostPort); on error return; defer server.Close()
TunnelDial ==
    /\ variant = "tunnel"
    /\ pc = "dial"
    /\ hostPort' = NormalizePort(hostPort)
    /\ dialed' = Append(dialed, hostPort')
    /\ \E ok \in BOOLEAN :
          /\ dialOK' = ok
          /\ deferred' = IF ok THEN Append(deferred, "server") ELSE deferred
          /\ pc' = IF ok THEN "respond" ELSE "return"
    /\ UNCHANGED <<static, remoteAddr, targetAddr, req, held, blocked,
                   clientClosed, serverClosed, clientW, peerVars, copyVars, logged>>

\* a handler that skips the response
TunnelRespondSilent ==
    /\ variant = "tunnel"
    /\ pc = "respond"
    /\ pc' = "spawn"
    /\ UNCHANGED <<static, reqVars, dialed, dialOK, connVars, clientW,
                   peerVars, copyVars, logged>>

\* client.Write([]byte(resp)), resp the 200 Connection Established response
TunnelRespond ==
    /\ variant = "tunnel"
    /\ pc = "respond"
    /\ clientW' = Append(clientW, Established)
    /\ pc' = "spawn"
    /\ UNCHANGED <<static, reqVars, dialed, dialOK, connVars, peerVars,
                   copyVars, logged>>

\* go io.Copy(server, client); the handler goes on to io.Copy(client, server)
TunnelSpawn ==
    /\ variant = "tunnel"
    /\ pc = "spawn"
    /\ bg' = "read"
    /\ pc' = "fgRead"
    /\ UNCHANGED <<static, reqVars, dialed, dialOK, connVars, clientW,
                   peerVars, toTarget, toClient, bgBuf, bgRet, fgBuf, fgRet,
                   bytesRead, bytesWritten, logged>>

(***************************************************************************)
(* Reads and writes on a connection, and the two copy loops of a relay.    *)
(* io.Copy(dst, src) repeats: read a chunk from src, write it to dst; it   *)
(* ends when the read reports end-of-stream or an error, or the write an   *)
(* error.                                                                  *)
(***************************************************************************)
\* what Read can return: an error once Close was called on the connection,
\* else a non-empty chunk of the waiting bytes, else end-of-stream once the
\* peer has ended; it blocks (no result) while none of these applies
ReadResults(waiting, localClosed, peerEnded) ==
    IF localClosed THEN {IOResult(0, "ErrClosed")}
    ELSE IF waiting # <<>> THEN {IOResult(n, "nil") : n \in 1..Len(waiting)}
    ELSE IF peerEnded THEN {IOResult(0, "EOF")}
    ELSE {}

\* what Write can return: an error once Close was called on the connection,
\* else all bytes written, or, once the peer is gone, a failure after a
\* part of them
WriteResults(data, localClosed, peerEnded) ==
    IF localClosed THEN {IOResult(0, "ErrClosed")}
    ELSE {IOResult(Len(data), "nil")}
         \cup (IF peerEnded THEN {IOResult(k, "WriteErr") : k \in 0..(Len(data) - 1)}
                            ELSE {})

\* one read of the background copy, client to target; count is the new bytesRead
BgReadStep(res, count) ==
    /\ bg = "read"
    /\ IF res.n > 0
       THEN /\ bgBuf' = SubSeq(c2p, 1, res.n)
            /\ c2p' = SubSeq(c2p, res.n + 1, Len(c2p))
            /\ bg' = "write"
            /\ bgRet' = bgRet
       ELSE /\ bgBuf' = bgBuf
            /\ c2p' = c2p
            /\ bg' = "done"
            /\ bgRet' = res.err
    /\ bytesRead' = count
    /\ UNCHANGED <<static, pc, reqVars, dialed, dialOK, connVars, clientW,
                   clientSent, clientEnded, targetSent, targetEnded, t2p, toTarget,
                   toClient, fgBuf, fgRet, bytesWritten, logged>>

\* one write of the background copy; count is the new bytesWritten
BgWriteStep(res, count) ==
    /\ bg = "write"
    /\ toTarget' = toTarget \o SubSeq(bgBuf, 1, res.n)
    /\ bgBuf' = <<>>
    /\ IF res.err = "nil"
       THEN bg' = "read" /\ bgRet' = bgRet
       ELSE bg' = "done" /\ bgRet' = res.err
    /\ bytesWritten' = count
    /\ UNCHANGED <<static, pc, reqVars, dialed, dialOK, connVars, clientW,
                   peerVars, toClient, fgBuf, fgRet, bytesRead, logged>>

\* one read of the foreground copy, target to client
FgReadStep(res) ==
    /\ pc = "fgRead"
    /\ IF res.n > 0
       THEN /\ fgBuf' = SubSeq(t2p, 1, res.n)
            /\ t2p' = SubSeq(t2p, res.n + 1, Len(t2p))
            /\ pc' = "fgWrite"
            /\ fgRet' = fgRet
       ELSE /\ fgBuf' = fgBuf
            /\ t2p' = t2p
            /\ pc' = "log"
            /\ fgRet' = res.err
    /\ UNCHANGED <<static, reqVars, dialed, dialOK, connVars, clientW,
                   clientSent, clientEnded, c2p, targetSent, targetEnded, toTarget,
                   toClient, bg, bgBuf, bgRet, bytesRead, bytesWritten, logged>>

\* one write of the foreground copy
FgWriteStep(res) ==
    /\ pc = "fgWrite"
    /\ toClient' = toClient \o SubSeq(fgBuf, 1, res.n)
    /\ fgBuf' = <<>>
    /\ IF res.err = "nil"
       THEN pc' = "fgRead" /\ fgRet' = fgRet
       ELSE pc' = "log" /\ fgRet' = res.err
    /\ UNCHANGED <<static, reqVars, dialed, dialOK, connVars, clientW,
                   peerVars, toTarget, bg, bgBuf, bgRet, bytesRead, bytesWritten,
                   logged>>

\* go io.Copy(server, client): reads the raw client connection
TunnelBgRead ==
    /\ variant = "tunnel"
    /\ \E res \in ReadResults(c2p, clientClosed, clientEnded) :
          BgReadStep(res, bytesRead)

\* go io.Copy(server, client): writes the raw server connection
TunnelBgWrite ==
    /\ variant = "tunnel"
    /\ \E res \in WriteResults(bgBuf, serverClosed, targetEnded) :
          BgWriteStep(res, bytesWritten)

\* io.Copy(client, server): reads the raw server connection
TunnelFgRead ==
    /\ variant = "tunnel"
    /\ \E res \in ReadResults(t2p, serverClosed, targetEnded) : FgReadStep(res)

\* io.Copy(client, server): writes the raw client connection
TunnelFgWrite ==
    /\ variant = "tunnel"
    /\ \E res \in WriteResults(fgBuf, clientClosed, clientEnded) : FgWriteStep(res)

\* log.Printf(..., clientCounting.bytesWritten, serverCounting.bytesRead)
TunnelLog ==
    /\ variant = "tunnel"
    /\ pc = "log"
    /\ logged' = <<bytesWritten, bytesRead>>
    /\ pc' = "return"
    /\ UNCHANGED <<static, reqVars, dialed, dialOK, connVars, clientW,
                   peerVars, copyVars>>

\* the handler returns: its deferred Close calls run, last registered first
Return ==
    /\ pc = "return"
    /\ clientClosed' = (clientClosed \/ \E i \in 1..Len(deferred) : deferred[i] = "client")
    /\ serverClosed' = (serverClosed \/ \E i \in 1..Len(deferred) : deferred[i] = "server")
    /\ deferred' = <<>>
    /\ pc' = "done"
    /\ UNCHANGED <<static, reqVars, dialed, dialOK, clientW, peerVars,
                   copyVars, logged>>

(***************************************************************************)
(* The socks variant: handleSOCKS of src/src/main.go.                      *)
(***************************************************************************)
\* main: listener.Accept, go handleSOCKS(conn, conn.RemoteAddr().String())
SocksAccept ==
    /\ variant = "socks"
    /\ pc = "accept"
    /\ \E addr \in RemoteAddrs :
          /\ remoteAddr' = addr
          /\ targetAddr' = addr
    /\ pc' = "split"
    /\ UNCHANGED <<static, req, held, hostPort, blocked, dialed, dialOK,
                   connVars, clientW, peerVars, copyVars, logged>>

\* host, _, err := net.SplitHostPort(targetAddr); on error return
SocksSplit ==
    /\ variant = "socks"
    /\ pc = "split"
    /\ LET r == SplitHostPort(targetAddr) IN
          /\ hostPort' = IF r.err THEN hostPort ELSE r.host
          /\ pc' = IF r.err THEN "return" ELSE "policy"
    /\ UNCHANGED <<static, remoteAddr, targetAddr, req, held, blocked,
                   dialed, dialOK, connVars, clientW, peerVars, copyVars, logged>>

\* if isBlacklisted(host) { conn.Write(418); conn.Close(); return }
SocksCheckPolicy ==
    /\ variant = "socks"
    /\ pc = "policy"
    /\ IF isBlacklisted(hostPort, blacklist)
       THEN /\ blocked' = "yes"
            /\ clientW' = Append(clientW, Teapot)
            /\ clientClosed' = TRUE
            /\ pc' = "return"
       ELSE /\ blocked' = "no"
            /\ clientW' = clientW
            /\ clientClosed' = clientClosed
            /\ pc' = "dial"
    /\ UNCHANGED <<static, remoteAddr, targetAddr, req, held, hostPort,
                   dialed, dialOK, serverClosed, deferred, peerVars, copyVars, logged>>

\* dialer := proxy.SOCKS5(...); targetConn, err := dialer.Dial("tcp", targetAddr);
\* on error return; defer targetConn.Close().  A failure to create the dialer
\* returns the same way as a failed dial and is part of the outcome "not ok".
SocksDial ==
    /\ variant = "socks"
    /\ pc = "dial"
    /\ dialed' = Append(dialed, targetAddr)
    /\ \E ok \in BOOLEAN :
          /\ dialOK' = ok
          /\ deferred' = IF ok THEN Append(deferred, "server") ELSE deferred
          /\ pc' = IF ok THEN "spawn" ELSE "return"
    /\ UNCHANGED <<static, reqVars, clientClosed, serverClosed, clientW,
                   peerVars, copyVars, logged>>

\* go io.Copy(cw, cr); the handler goes on to io.Copy(conn, targetConn)
SocksSpawn ==
    /\ variant = "socks"
    /\ pc = "spawn"
    /\ bg' = "read"
    /\ pc' = "fgRead"
    /\ UNCHANGED <<static, reqVars, dialed, dialOK, connVars, clientW,
                   peerVars, toTarget, toClient, bgBuf, bgRet, fgBuf, fgRet,
                   bytesRead, bytesWritten, logged>>

\* go io.Copy(cw, cr): cr.Read reads conn and counts
SocksBgRead ==
    /\ variant = "socks"
    /\ \E res \in ReadResults(c2p, clientClosed, clientEnded) :
          BgReadStep(res, countingReaderRead(bytesRead, res).count)

\* go io.Copy(cw, cr): cw.Write writes targetConn and counts
SocksBgWrite ==
    /\ variant = "socks"
    /\ \E res \in WriteResults(bgBuf, serverClosed, targetEnded) :
          BgWriteStep(res, countingWriterWrite(bytesWritten, res).count)

\* io.Copy(conn, targetConn): reads the raw target connection
SocksFgRead ==
    /\ variant = "socks"
    /\ \E res \in ReadResults(t2p, serverClosed, targetEnded) : FgReadStep(res)

\* io.Copy(conn, targetConn): writes the raw client connection
SocksFgWrite ==
    /\ variant = "socks"
    /\ \E res \in WriteResults(fgBuf, clientClosed, clientEnded) : FgWriteStep(res)

\* log.Printf(..., cr.bytesRead, cw.bytesWritten): a plain read of each
\* counter, which yields the value the counter holds at that moment
SocksLog ==
    /\ variant = "socks"
    /\ pc = "log"
    /\ logged' = <<bytesRead, bytesWritten>>
    /\ pc' = "return"
    /\ UNCHANGED <<static, reqVars, dialed, dialOK, connVars, clientW,
                   peerVars, copyVars>>

(***************************************************************************)
(* The socks variant's HTTP listener: handleHTTP of src/src/main.go.       *)
(***************************************************************************)
StatusTeapot == 418
StatusInternalServerError == 500

\* r.URL.Host of the requests the HTTP listener hands to handleHTTP
HttpHosts == { <<"a">>, <<"a", ":", "8">>, <<"c">> }

\* The requests net/http's server hands to the handler.  The server parses
\* the request line into Method, RequestURI and Proto and keeps the
\* request-target in r.RequestURI; a request line without a target is
\* answered 400 by the server and never reaches the handler, so RequestURI
\* is never empty here.
HttpRequests == { [host |-> h, requestURI |-> h \o <<"/">>] : h \in HttpHosts }

OriginDown == [up |-> FALSE, status |-> 0, header |-> "", body |-> <<>>]

\* the origin a request names: unreachable, or answering with a status, a
\* header and a body of up to MaxPayload bytes
Origins ==
    {OriginDown}
    \cup { [up |-> TRUE, status |-> st, header |-> "X-Origin", body |-> [i \in 1..n |-> i]] :
              st \in {200, 404}, n \in 0..MaxPayload }

\* client.Do(r) of an http.Client: a request whose RequestURI is set is
\* refused before anything is sent ("http: Request.RequestURI can't be set
\* in client requests"); otherwise the origin's answer, or an error when the
\* origin is unreachable.
clientDo(r, o) ==
    IF r.requestURI # <<>> THEN [err |-> TRUE, resp |-> OriginDown]
    ELSE IF o.up THEN [err |-> FALSE, resp |-> o]
    ELSE [err |-> TRUE, resp |-> OriginDown]

\* http.ListenAndServe(":8080", nil) calls handleHTTP(w, r) for a request
HttpServe ==
    /\ variant = "socks"
    /\ pc = "accept"
    /\ httpReq' \in HttpRequests
    /\ origin' \in Origins
    /\ pc' = "httpPolicy"
    /\ UNCHANGED <<variant, blacklist, mvars, policyFile, loopVars, dispatched, httpW,
                   httpLogged, reqVars, dialed, dialOK, connVars, clientW, peerVars,
                   copyVars, logged>>

\* a policy step that answers 418 and then goes on to dispatch
HttpCheckPolicyNoReturn ==
    /\ pc = "httpPolicy"
    /\ httpW' = IF isBlacklisted(httpReq.host, blacklist)
                THEN [httpW EXCEPT !.status = StatusTeapot]
                ELSE httpW
    /\ pc' = "httpDispatch"
    /\ UNCHANGED <<variant, blacklist, mvars, policyFile, loopVars, httpReq, origin,
                   dispatched, httpLogged, reqVars, dialed, dialOK, connVars, clientW,
                   peerVars, copyVars, logged>>

\* if isBlacklisted(r.URL.Host) { w.WriteHeader(http.StatusTeapot); return }
HttpCheckPolicy ==
    /\ pc = "httpPolicy"
    /\ IF isBlacklisted(httpReq.host, blacklist)
       THEN /\ httpW' = [httpW EXCEPT !.status = StatusTeapot]
            /\ pc' = "httpDone"
       ELSE /\ httpW' = httpW
            /\ pc' = "httpDispatch"
    /\ UNCHANGED <<variant, blacklist, mvars, policyFile, loopVars, httpReq, origin,
                   dispatched, httpLogged, reqVars, dialed, dialOK, connVars, clientW,
                   peerVars, copyVars, logged>>

\* resp, err := client.Do(r); on error http.Error(w, err.Error(), 500) and
\* return; else copy resp.Header to w, w.WriteHeader(resp.StatusCode),
\* io.Copy(cw, resp.Body) through the countingWriter cw, and log
\* cw.bytesWritten.  The handler is the only writer of w, so the whole of it
\* is one step.
HttpDispatch ==
    /\ pc = "httpDispatch"
    /\ dispatched' = dispatched + 1
    /\ LET res == clientDo(httpReq, origin) IN
       IF res.err
       THEN /\ httpW' = [httpW EXCEPT !.status = IF httpW.status = 0
                                                 THEN StatusInternalServerError
                                                 ELSE httpW.status,
                                      !.msg = "err.Error()"]
            /\ httpLogged' = httpLogged
       ELSE /\ httpW' = [status |-> IF httpW.status = 0 THEN res.resp.status
                                                        ELSE httpW.status,
                         header |-> res.resp.header,
                         body   |-> httpW.body \o res.resp.body,
                         msg    |-> httpW.msg]
            /\ httpLogged' =
                  <<countingWriterWrite(0, IOResult(Len(res.resp.body), "nil")).count>>
    /\ pc' = "httpDone"
    /\ UNCHANGED <<variant, blacklist, mvars, policyFile, loopVars, httpReq, origin,
                   reqVars, dialed, dialOK, connVars, clientW, peerVars, copyVars,
                   logged>>

Next ==
    \/ ClientSend \/ ClientEnd \/ TargetSend \/ TargetEnd
    \/ TunnelAccept \/ TunnelReadRequest \/ TunnelCheckMethod \/ TunnelCheckPolicy
    \/ TunnelDial \/ TunnelRespond \/ TunnelSpawn
    \/ TunnelBgRead \/ TunnelBgWrite \/ TunnelFgRead \/ TunnelFgWrite \/ TunnelLog
    \/ SocksAccept \/ SocksSplit \/ SocksCheckPolicy \/ SocksDial \/ SocksSpawn
    \/ SocksBgRead \/ SocksBgWrite \/ SocksFgRead \/ SocksFgWrite \/ SocksLog
    \/ Return
    \/ HttpServe \/ HttpCheckPolicy \/ HttpDispatch

Spec == Init /\ [][Next]_vars

(***************************************************************************)
(* The policy checks on their own: SpecPolicy applies isBlocked and        *)
(* isBlacklisted to every candidate host string of a bounded length, under *)
(* every policy set a load can produce from a few entries.                 *)
(***************************************************************************)
HostAlphabet == {"a", "b", ":"}

CandidateHosts == UNION { [1..k -> HostAlphabet] : k \in 0..MaxHostLen }

\* the trimmed lines a policy file may hold; the empty one is a blank line
PolicyEntries == { <<>>, <<"a">>, <<"a", ":">>, <<"a", "b">>, <<"b">> }

\* the lines of the policy files: blank, bare, and with white space around
PolicyLines == << <<>>, <<"a">>, <<"a", ":">>, <<" ", "a", "b">>, <<"b", " ">> >>

RECURSIVE LinesAt(_, _)
\* the lines of PolicyLines whose index is in idx, from line n on, in order
LinesAt(idx, n) ==
    IF n > Len(PolicyLines) THEN <<>>
    ELSE (IF n \in idx THEN <<PolicyLines[n]>> ELSE <<>>) \o LinesAt(idx, n + 1)

\* the policy files of SpecPolicy: every selection of lines of PolicyLines
CandidateFiles == { LinesAt(idx, 1) : idx \in SUBSET (1..Len(PolicyLines)) }

InitPolicy ==
    /\ variant \in {"tunnel", "socks"}
    /\ policyFile \in CandidateFiles
    /\ blacklist = IF variant = "tunnel" THEN loadBlacklistTunnel(policyFile)
                                         ELSE loadBlacklistSocks(policyFile)
    /\ blacklist \in SUBSET PolicyEntries
    /\ variant = "socks" => <<>> \notin blacklist
    /\ pc = "policyInput"
    /\ MeterIdle
    /\ ConnFresh
    /\ HttpIdle
    /\ LoopIdle

\* isBlocked(host) for a candidate host
ApplyIsBlocked ==
    /\ variant = "tunnel"
    /\ pc = "policyInput"
    /\ \E h \in CandidateHosts :
          /\ hostPort' = h
          /\ blocked' = IF isBlocked(h, blacklist) THEN "yes" ELSE "no"
    /\ pc' = "policyResult"
    /\ UNCHANGED <<static, remoteAddr, targetAddr, req, held, dialed, dialOK,
                   connVars, clientW, peerVars, copyVars, logged>>

\* isBlacklisted(address) for a candidate host
ApplyIsBlacklisted ==
    /\ variant = "socks"
    /\ pc = "policyInput"
    /\ \E h \in CandidateHosts :
          /\ hostPort' = h
          /\ blocked' = IF isBlacklisted(h, blacklist) THEN "yes" ELSE "no"
    /\ pc' = "policyResult"
    /\ UNCHANGED <<static, remoteAddr, targetAddr, req, held, dialed, dialOK,
                   connVars, clientW, peerVars, copyVars, logged>>

NextPolicy == ApplyIsBlocked \/ ApplyIsBlacklisted

SpecPolicy == InitPolicy /\ [][NextPolicy]_vars

(***************************************************************************)
(* The metered wrappers on their own: SpecMeter makes a bounded sequence   *)
(* of Read/Write calls on one wrapper; the underlying call may return any  *)
(* n up to the buffer's length together with any error.                    *)
(***************************************************************************)
\* what the wrapped Read or Write can return for a buffer of length len
UnderlyingResults(len) == { IOResult(n, err) : n \in 0..len, err \in {"nil", "err"} }

InitMeter ==
    /\ variant \in {"tunnel", "socks"}
    /\ blacklist = {}
    /\ pc = "meter"
    /\ mKind = IF variant = "tunnel" THEN "countingConn" ELSE "countingWriter+countingReader"
    /\ mBytesRead = 0
    /\ mBytesWritten = 0
    /\ mCalls = <<>>
    /\ policyFile = <<>>
    /\ ConnFresh
    /\ HttpIdle
    /\ LoopIdle

MeterCall(op, res, ret) ==
    /\ Len(mCalls) < MaxCalls
    /\ mCalls' = Append(mCalls, [op |-> op, under |-> res, ret |-> IOResult(ret.n, ret.err)])
    /\ UNCHANGED <<hvars, mKind, policyFile, httpVars, loopVars>>

\* (*countingConn).Write
MeterConnWrite ==
    /\ mKind = "countingConn"
    /\ \E len \in 0..MaxBuf : \E res \in UnderlyingResults(len) :
          LET ret == countingConnWrite(mBytesWritten, res) IN
          /\ mBytesWritten' = ret.count
          /\ mBytesRead' = mBytesRead
          /\ MeterCall("Write", res, ret)

\* (*countingConn).Read
MeterConnRead ==
    /\ mKind = "countingConn"
    /\ \E len \in 0..MaxBuf : \E res \in UnderlyingResults(len) :
          LET ret == countingConnRead(mBytesRead, res) IN
          /\ mBytesRead' = ret.count
          /\ mBytesWritten' = mBytesWritten
          /\ MeterCall("Read", res, ret)

\* (*countingWriter).Write
MeterWriterWrite ==
    /\ mKind = "countingWriter+countingReader"
    /\ \E len \in 0..MaxBuf : \E res \in UnderlyingResults(len) :
          LET ret == countingWriterWrite(mBytesWritten, res) IN
          /\ mBytesWritten' = ret.count
          /\ mBytesRead' = mBytesRead
          /\ MeterCall("Write", res, ret)

\* (*countingReader).Read
MeterReaderRead ==
    /\ mKind = "countingWriter+countingReader"
    /\ \E len \in 0..MaxBuf : \E res \in UnderlyingResults(len) :
          LET ret == countingReaderRead(mBytesRead, res) IN
          /\ mBytesRead' = ret.count
          /\ mBytesWritten' = mBytesWritten
          /\ MeterCall("Read", res, ret)

NextMeter == MeterConnWrite \/ MeterConnRead \/ MeterWriterWrite \/ MeterReaderRead

SpecMeter == InitMeter /\ [][NextMeter]_vars

(***************************************************************************)
(* The accept loop with several connections: SpecLoop follows main's loop  *)
(* and the handler goroutine of each accepted connection.  A handler is    *)
(* followed from one exit of its code to the next: conns[i].at is where it *)
(* stands, conns[i].outcome how it returned.                               *)
(***************************************************************************)
ConnIds == 1..MaxConns

NoConn == [at |-> "none", addr |-> <<>>, host |-> <<>>, outcome |-> ""]

InitLoop ==
    /\ variant \in {"tunnel", "socks"}
    /\ policyFile \in PolicyFiles
    /\ blacklist = IF variant = "tunnel" THEN loadBlacklistTunnel(policyFile)
                                         ELSE loadBlacklistSocks(policyFile)
    /\ pc = "accept"
    /\ conns = [i \in ConnIds |-> NoConn]
    /\ listening = TRUE
    /\ MeterIdle
    /\ ConnFresh
    /\ HttpIdle

loopFrame == <<hvars, mvars, policyFile, httpVars>>

\* for { client, err := listener.Accept(); if err != nil { log; continue };
\* go handler(client) }: an Accept error leaves the loop running
LoopAccept(i) ==
    /\ listening
    /\ conns[i].at = "none"
    /\ \E ok \in BOOLEAN, a \in RemoteAddrs :
          conns' = IF ok
                   THEN [conns EXCEPT ![i] =
                           [NoConn EXCEPT !.at = IF variant = "tunnel" THEN "readRequest"
                                                                       ELSE "split",
                                          !.addr = a]]
                   ELSE conns
    /\ UNCHANGED <<listening, loopFrame>>

\* handleClientConnection up to the policy check: a request that cannot be
\* read or is not a CONNECT makes the handler return
ConnReadRequest(i) ==
    /\ variant = "tunnel"
    /\ conns[i].at = "readRequest"
    /\ \E r \in Requests :
          conns' = [conns EXCEPT ![i] =
                      IF ~r.ok THEN [@ EXCEPT !.at = "returned", !.outcome = "readError"]
                      ELSE IF r.method # "CONNECT"
                      THEN [@ EXCEPT !.at = "returned", !.outcome = "wrongMethod"]
                      ELSE [@ EXCEPT !.at = "policy", !.host = r.host]]
    /\ UNCHANGED <<listening, loopFrame>>

\* handleSOCKS up to the policy check: net.SplitHostPort(targetAddr)
ConnSplit(i) ==
    /\ variant = "socks"
    /\ conns[i].at = "split"
    /\ LET r == SplitHostPort(conns[i].addr) IN
          conns' = [conns EXCEPT ![i] =
                      IF r.err THEN [@ EXCEPT !.at = "returned", !.outcome = "splitError"]
                      ELSE [@ EXCEPT !.at = "policy", !.host = r.host]]
    /\ UNCHANGED <<listening, loopFrame>>

\* the policy check of either handler: a blocked host makes it return
ConnCheckPolicy(i) ==
    /\ conns[i].at = "policy"
    /\ LET hit == IF variant = "tunnel" THEN isBlocked(conns[i].host, blacklist)
                                        ELSE isBlacklisted(conns[i].host, blacklist) IN
          conns' = [conns EXCEPT ![i] =
                      IF hit THEN [@ EXCEPT !.at = "returned", !.outcome = "blocked"]
                      ELSE [@ EXCEPT !.at = "dial"]]
    /\ UNCHANGED <<listening, loopFrame>>

\* a dial whose failure ends the process, as log.Fatalf would
ConnDialFatal(i) ==
    /\ conns[i].at = "dial"
    /\ \E ok \in BOOLEAN :
          IF ok
          THEN /\ conns' = [conns EXCEPT ![i] = [@ EXCEPT !.at = "relay"]]
               /\ listening' = listening
          ELSE /\ conns' = [j \in ConnIds |->
                              [conns[j] EXCEPT !.at = "returned", !.outcome = "exit"]]
               /\ listening' = FALSE
    /\ UNCHANGED loopFrame

\* the dial of either handler: on an error log.Printf and return
ConnDial(i) ==
    /\ conns[i].at = "dial"
    /\ \E ok \in BOOLEAN :
          conns' = [conns EXCEPT ![i] =
                      IF ok THEN [@ EXCEPT !.at = "relay"]
                      ELSE [@ EXCEPT !.at = "returned", !.outcome = "dialError"]]
    /\ UNCHANGED <<listening, loopFrame>>

\* the relay of either handler up to its return: the two io.Copy end on
\* end-of-stream or on a read/write error, and the handler logs and returns
ConnRelay(i) ==
    /\ conns[i].at = "relay"
    /\ \E fault \in BOOLEAN :
          conns' = [conns EXCEPT ![i] =
                      [@ EXCEPT !.at = "returned",
                                !.outcome = IF fault THEN "relayError" ELSE "relayed"]]
    /\ UNCHANGED <<listening, loopFrame>>

NextLoop ==
    \E i \in ConnIds :
        \/ LoopAccept(i)
        \/ ConnReadRequest(i)
        \/ ConnSplit(i)
        \/ ConnCheckPolicy(i)
        \/ ConnDial(i)
        \/ ConnRelay(i)

SpecLoop == InitLoop /\ [][NextLoop]_vars

(***************************************************************************)
(* Properties.                                                             *)
(***************************************************************************)
InSeq(x, q) == \E i \in 1..Len(q) : q[i] = x

\* e is h or a prefix of h: h is e followed by some rest
IsPrefixOf(e, h) == \E k \in 0..Len(h) : e = SubSeq(h, 1, k)

NoColonIn(h) == \A i \in 1..Len(h) : h[i] # ":"

\* the relay of the connection has started
RelayStarted ==
    \/ bg # "none"
    \/ pc \in {"fgRead", "fgWrite", "log"}
    \/ toClient # <<>> \/ toTarget # <<>>
    \/ bgBuf # <<>> \/ fgBuf # <<>>
    \/ logged # <<>>

\* C1: in both tunnel handlers, once the policy check has reported the target
\* as blocked, the 418 status line is the one thing written to the client,
\* the handler is at its return, and no dial and no relay has happened.
BlockedGetsTeapotNoDial ==
    blocked = "yes" =>
        /\ clientW = <<Teapot>>
        /\ pc \in {"return", "done"}
        /\ dialed = <<>>
        /\ ~dialOK
        /\ ~RelayStarted

BlockedGetsTeapotNoDial_witness ==
    /\ pc = "done"
    /\ blocked = "yes"
    /\ clientW = <<Teapot>>
    /\ dialed = <<>>

LogAfterBothCopies ==
    logged # <<>> => bg = "done"

\* the whole of a relay went through without a fault: both copies ended on
\* their source's end-of-stream and every byte the peers sent was passed on
CleanRelay ==
    /\ bg = "done" /\ bgRet = "EOF"
    /\ fgRet = "EOF"
    /\ held = <<>>
    /\ Len(toTarget) = clientSent
    /\ Len(toClient) = targetSent

\* C4 (as stated): when a relay finishes, the two logged totals are the
\* number of bytes passed client-to-target and target-to-client.
LoggedTotalsExact ==
    (logged # <<>> /\ CleanRelay) =>
        \/ logged = <<Len(toTarget), Len(toClient)>>
        \/ logged = <<Len(toClient), Len(toTarget)>>

\* C5: in the CONNECT handler the 200 response is written iff the dial
\* succeeded, after the dial and before anything is relayed; after a failed
\* dial nothing is written and nothing is relayed.
EstablishedIffDialed ==
    variant = "tunnel" =>
        /\ InSeq(Established, clientW) => (dialOK /\ dialed # <<>>)
        /\ (dialOK /\ pc # "respond") => clientW = <<Established>>
        /\ RelayStarted => clientW = <<Established>>
        /\ (dialed # <<>> /\ ~dialOK) =>
              (clientW = <<>> /\ ~RelayStarted /\ pc \in {"return", "done"})

EstablishedIffDialed_witness ==
    /\ variant = "tunnel"
    /\ clientW = <<Established>>
    /\ toClient = <<1>>
    /\ toTarget = <<1>>

\* C6: on the tunnel-only listener a request that cannot be parsed or whose
\* method is not CONNECT leads to no policy check, no dial, no relay and no
\* byte written to the client, and the client connection is closed when the
\* handler has returned.
NonConnectIsDropped ==
    (variant = "tunnel" /\ pc \notin {"accept", "readRequest"}
        /\ (~req.ok \/ req.method # "CONNECT")) =>
        /\ pc \in {"method", "return", "done"}
        /\ blocked = "unknown"
        /\ dialed = <<>>
        /\ ~RelayStarted
        /\ clientW = <<>>
        /\ pc = "done" => clientClosed

NonConnectIsDropped_witness ==
    /\ variant = "tunnel"
    /\ pc = "done"
    /\ req.ok /\ req.method = "GET"
    /\ clientClosed

\* C7: in the CONNECT handler the address dialed is the requested host with
\* ":443" appended when the host holds no colon, and the requested host
\* unchanged when it holds one.
DialedAddressNormalised ==
    (variant = "tunnel" /\ dialed # <<>>) =>
        /\ Len(dialed) = 1
        /\ NoColonIn(req.host) => dialed[1] = req.host \o <<":", "4", "4", "3">>
        /\ ~NoColonIn(req.host) => dialed[1] = req.host

DialedAddressNormalised_witness ==
    /\ variant = "tunnel"
    /\ req.host = <<"c">>
    /\ dialed = << <<"c", ":", "4", "4", "3">> >>

\* C8 (as stated): when a handler has returned, the accepted connection is
\* closed and, if a connection was dialed, that one is closed too.
AllClosedOnReturn ==
    pc = "done" => (clientClosed /\ (dialOK => serverClosed))

\* C9 (as stated): no copy direction of a relay ends because the handler
\* closed a connection; it ends on its own source's end or its own I/O
\* failure.
NoCopyCutShort ==
    /\ bgRet # "ErrClosed"
    /\ fgRet # "ErrClosed"

RECURSIVE SumN(_, _)
\* the sum of the n the underlying calls of kind op returned
SumN(calls, op) ==
    IF calls = <<>> THEN 0
    ELSE (IF Head(calls).op = op THEN Head(calls).under.n ELSE 0) + SumN(Tail(calls), op)

MeterExact ==
    /\ \A i \in 1..Len(mCalls) : mCalls[i].ret = mCalls[i].under
    /\ mBytesWritten = SumN(mCalls, "Write")
    /\ mBytesRead = SumN(mCalls, "Read")

\* C10: every call on a metered wrapper returns the (n, err) of the
\* underlying call, each counter is the sum of the n returned so far by the
\* calls of its kind, and no counter ever decreases.
MeterCountsExactly ==
    /\ []MeterExact
    /\ [][mBytesWritten' >= mBytesWritten /\ mBytesRead' >= mBytesRead]_vars

\* a failing call that still transferred bytes, and a zero-length call
MeterCountsExactly_witness ==
    /\ Len(mCalls) = 2
    /\ mCalls[1].under = IOResult(1, "err")
    /\ mCalls[2].under = IOResult(0, "nil")
    /\ mCalls[1].op = "Write"
    /\ mBytesWritten = 1

\* C13 (as stated): in the SOCKS handler the address that is checked and
\* dialed is never the client's own remote address.
SocksNeverDialsClient ==
    (variant = "socks" /\ pc \notin {"accept", "split"}) =>
        /\ targetAddr # remoteAddr
        /\ \A i \in 1..Len(dialed) : dialed[i] # remoteAddr

\* the non-blank lines of the policy file, trimmed
NonBlankLines ==
    { TrimSpace(policyFile[i]) : i \in 1..Len(policyFile) } \ { <<>> }

\* C15 (as stated): the loaded policy holds exactly the distinct non-empty
\* trimmed lines of its source, so a host is reported as blocked only when a
\* non-blank line matches it.
BlankLinesIgnored ==
    pc = "policyResult" =>
        /\ blacklist = NonBlankLines
        /\ blocked = "yes" => \E e \in NonBlankLines : IsPrefixOf(e, hostPort)

\* C16 (as stated): in the CONNECT handler, when the client-to-target copy
\* has ended on the client's end-of-stream without an I/O fault, the target
\* was given every byte the client sent after its request, once and in order.
TunnelIsLossless ==
    (variant = "tunnel" /\ bg = "done" /\ bgRet = "EOF") =>
        /\ Len(toTarget) = clientSent
        /\ \A i \in 1..Len(toTarget) : toTarget[i] = i

\* C17 (as stated): in the CONNECT handler no address that was dialed is one
\* the policy blocks.
DialedIsNeverBlocked ==
    variant = "tunnel" =>
        \A i \in 1..Len(dialed) : ~isBlocked(dialed[i], blacklist)

\* C18 (as stated): once the handler has returned, the background copy is
\* never left waiting for the client: it has a step of its own to take until
\* it has terminated, whatever the client does.
BackgroundCopyNotStuck ==
    (pc = "done" /\ bg \in {"read", "write"}) =>
        ENABLED (TunnelBgRead \/ TunnelBgWrite \/ SocksBgRead \/ SocksBgWrite)

\* handleHTTP was called, and for a request the policy blocks / does not block
HttpCalled == pc \in {"httpPolicy", "httpDispatch", "httpDone"}

HttpHostBlocked == \E e \in blacklist : e = httpReq.host

\* C11: in the HTTP forward handler a request for a blocked host is answered
\* 418 and never dispatched; any other request is dispatched at most once,
\* and when the dispatch fails the client gets status 500 and nothing of an
\* origin's response.
HttpBlockedOrDispatchedOnce ==
    HttpCalled =>
        /\ dispatched <= 1
        /\ HttpHostBlocked =>
              /\ dispatched = 0
              /\ pc = "httpDone" => httpW.status = 418
              /\ httpW.body = <<>> /\ httpW.header = ""
        /\ ~HttpHostBlocked =>
              /\ httpW.status # 418
              /\ pc = "httpDone" => dispatched = 1
        /\ (pc = "httpDone" /\ ~HttpHostBlocked /\ clientDo(httpReq, origin).err) =>
              /\ httpW.status = 500
              /\ httpW.body = <<>> /\ httpW.header = ""
              /\ httpLogged = <<>>

\* an unblocked request whose one dispatch failed, answered 500
HttpBlockedOrDispatchedOnce_witness ==
    /\ pc = "httpDone"
    /\ httpReq.host = <<"a", ":", "8">>
    /\ <<"a">> \in blacklist
    /\ httpW.status = 500
    /\ dispatched = 1

\* C12 (as stated): for an unblocked request whose origin is reachable and
\* answers, the client receives the origin's status, headers and whole body,
\* and the logged count is the number of body bytes written.
HttpStreamsOriginResponse ==
    (pc = "httpDone" /\ ~HttpHostBlocked /\ origin.up) =>
        /\ httpW.status = origin.status
        /\ httpW.header = origin.header
        /\ httpW.body = origin.body
        /\ httpLogged = <<Len(httpW.body)>>

FailureOutcomes ==
    {"readError", "wrongMethod", "splitError", "blocked", "dialError", "relayError"}

\* the step makes the handler of connection i return with a failure
FailsIn(i) ==
    /\ conns[i].outcome = ""
    /\ conns'[i].outcome # ""
    /\ conns'[i].outcome # "relayed"

\* the accept loop runs and takes a connection whenever a slot is free
LoopCanAccept ==
    /\ listening
    /\ \A j \in ConnIds : conns[j].at = "none" => ENABLED LoopAccept(j)

\* C14: a failure of one connection leaves the accept loop running, and
\* changes neither the state of any other connection nor the loaded policy.
FailuresAreLocal ==
    /\ []LoopCanAccept
    /\ [][\A i \in ConnIds :
            FailsIn(i) =>
                /\ conns'[i].outcome \in FailureOutcomes
                /\ listening'
                /\ blacklist' = blacklist
                /\ \A j \in ConnIds \ {i} : conns'[j] = conns[j]]_vars

\* one connection failed at its dial, another was accepted later and relayed
FailuresAreLocal_witness ==
    /\ listening
    /\ conns[1].outcome = "dialError"
    /\ conns[2].outcome = "relayed"

=============================================================================
